---- MODULE Spec2Model ----
(***************************************************************************)
(* A model of the request orchestration of frontend/src/App.js:            *)
(*   - the cart synchronizer of AppContent (add / update / remove /        *)
(*     refresh against the backend cart of SESSION_ID),                    *)
(*   - the payment-status poller of PaymentSuccess,                        *)
(*   - the auth bootstrapper of AuthProvider.                              *)
(* Each of the three lives on its own route and has its own specification  *)
(* (SpecCart, SpecPoll, SpecAuth); the variables of the other two are left *)
(* unchanged by it.                                                        *)
(***************************************************************************)
EXTENDS Integers, Sequences, FiniteSets, Bags, TLC

VARIABLES
    \* ---- cart synchronizer (AppContent, ProductCard, ShoppingCart)
    cartItems,      \* useState([]) of AppContent: the displayed cart
    backendCart,    \* the backend's cart for SESSION_ID
    inflight,       \* bag of cart requests issued and not yet settled
    adding,         \* products whose ProductCard has isLoading = true
    clicks,         \* number of user gestures made so far
    failed,         \* TRUE once some cart request has failed
    last,           \* what the last cart step did: event, request, toast
    location,       \* window.location: the app's page, or a checkout session's url
    checkoutNet,    \* bag of POST /checkout/create-session requests not yet settled
    sessionsCreated,\* number of payment sessions the backend has created
    gestures,       \* the user's clicks on cart controls so far, in order
    \* ---- payment-status poller (PaymentSuccess)
    search,         \* window.location.search, as its list of name=value pairs
    paymentStatus,  \* useState('checking')
    paymentDetails, \* useState(null)
    pollPc,         \* "mount" before the mount effect has run, then "run"
    pollAttempts,   \* the attempts argument of the latest pollPaymentStatus call
    pollNet,        \* the GET /checkout/status request, if one is outstanding
    pollTimer,      \* TRUE while a setTimeout of pollPaymentStatus is pending
    statusRequests, \* number of GET /checkout/status requests issued
    pollHistory,    \* the responses the poller has received, in order
    pollMounted,    \* TRUE while PaymentSuccess is mounted
    unmountedAt,    \* statusRequests as it was when PaymentSuccess unmounted
    \* ---- auth bootstrapper (AuthProvider)
    hash,           \* window.location.hash after its '#', as a list of tokens
    mountedWith,    \* the fragment the page was loaded with
    user,           \* useState(null)
    loading,        \* useState(true)
    authPc,         \* "mount" before the mount effects have run, then "run"
    effectQueued,   \* TRUE while the [loading] effect waits to run again
    meNet,          \* the GET /auth/me request
    loginNet,       \* the POST /auth/login request
    loginCalls,     \* the session_id of every POST /auth/login issued, in order
    authToast,      \* the toast the last auth step showed
    route,          \* the route shown: "/profile" (UserProfile) or "/" (AppContent)
    profileQueued,  \* TRUE while the effect of UserProfile waits to run again
    redirected,     \* TRUE once the effect of UserProfile has called navigate('/')
    meData,         \* the user record GET /auth/me answered with
    loginData,      \* the user record POST /auth/login answered with
    logoutNet,      \* the POST /auth/logout requests outstanding, by stage
    logouts,        \* number of clicks on Logout so far
    signedIn        \* TRUE when an auth request has succeeded since the last logout

cartVars == <<cartItems, backendCart, inflight, adding, clicks, failed, last,
              location, checkoutNet, sessionsCreated, gestures>>

pollVars == <<search, paymentStatus, paymentDetails, pollPc, pollAttempts,
              pollNet, pollTimer, statusRequests, pollHistory,
              pollMounted, unmountedAt>>

authVars == <<hash, mountedWith, user, loading, authPc, effectQueued, meNet,
              loginNet, loginCalls, authToast, route, profileQueued, redirected,
              meData, loginData, logoutNet, logouts, signedIn>>

vars == <<cartVars, pollVars, authVars>>

otherThanCart == <<pollVars, authVars>>
otherThanPoll == <<cartVars, authVars>>
otherThanAuth == <<cartVars, pollVars>>

----------------------------------------------------------------------------
(* Bounds *)

MaxClicks == 3      \* user gestures in one page lifetime
MaxInflight == 2    \* cart requests the user lets pile up before waiting

Products == {"p1", "p2"}

MaxParams == 2      \* name=value pairs in the query string
MaxHashLen == 3     \* tokens in the URL fragment
MaxLogouts == 2     \* clicks on Logout in one page lifetime

----------------------------------------------------------------------------
(* Payment-status poller *)

maxAttempts == 5

Null == [payment_status |-> "-", status |-> "-"]

Idle == [state |-> "idle", data |-> Null]
InFlight == [state |-> "pending", data |-> Null]
Response(d) == [state |-> "ok", data |-> d]
Failure == [state |-> "error", data |-> Null]

\* What GET /checkout/status/{id} can answer.
StatusData == [payment_status : {"paid", "unpaid"}, status : {"open", "complete", "expired"}]

Params == {[name |-> "session_id", value |-> "cs_1"],
           [name |-> "session_id", value |-> ""],
           [name |-> "ref", value |-> "cs_2"]}

Searches == UNION {[1..n -> Params] : n \in 0..MaxParams}

\* getUrlParameter(name): the value of the first name=value pair of the query
\* string with that name, '' when there is none.
getUrlParameter(name) ==
    LET hits == {i \in 1..Len(search) : search[i].name = name}
    IN  IF hits = {} THEN ""
        ELSE search[CHOOSE i \in hits : \A j \in hits : i <= j].value

InitPoll ==
    \* the cart page is not shown: nothing of it runs
    /\ cartItems = {}
    /\ backendCart = {}
    /\ inflight = EmptyBag
    /\ adding = {}
    /\ clicks = 0
    /\ failed = FALSE
    /\ last = [ev |-> "none", op |-> "-", prod |-> "-", qty |-> 0, toast |-> "none"]
    /\ location = [page |-> "app", session |-> 0]
    /\ checkoutNet = EmptyBag
    /\ sessionsCreated = 0
    /\ gestures = <<>>
    \* the auth bootstrapper is left out of this page's specification
    /\ hash = <<>>
    /\ mountedWith = <<>>
    /\ user = "null"
    /\ loading = TRUE
    /\ authPc = "mount"
    /\ effectQueued = FALSE
    /\ meNet = "idle"
    /\ loginNet = "idle"
    /\ loginCalls = <<>>
    /\ authToast = "none"
    /\ route = "/"
    /\ profileQueued = FALSE
    /\ redirected = FALSE
    /\ meData = "null"
    /\ loginData = "null"
    /\ logoutNet = [sent |-> 0, ok |-> 0, error |-> 0]
    /\ logouts = 0
    /\ signedIn = FALSE
    \* PaymentSuccess as constructed, before its mount effect
    /\ search \in Searches
    /\ paymentStatus = "checking"
    /\ paymentDetails = Null
    /\ pollPc = "mount"
    /\ pollAttempts = 0
    /\ pollNet = Idle
    /\ pollTimer = FALSE
    /\ statusRequests = 0
    /\ pollHistory = <<>>
    /\ pollMounted = TRUE
    /\ unmountedAt = 0

\* pollPaymentStatus with the limit tested as attempts > maxAttempts.
pollPaymentStatus_offByOne(attempts) ==
    /\ pollAttempts' = attempts
    /\ IF attempts > maxAttempts
       THEN /\ paymentStatus' = "timeout"
            /\ UNCHANGED <<pollNet, statusRequests>>
       ELSE /\ pollNet' = InFlight
            /\ statusRequests' = statusRequests + 1
            /\ UNCHANGED paymentStatus

\* pollPaymentStatus(sessionId, attempts) up to its await
pollPaymentStatus(attempts) ==
    /\ pollAttempts' = attempts
    /\ IF attempts >= maxAttempts
       THEN /\ paymentStatus' = "timeout"
            /\ UNCHANGED <<pollNet, statusRequests>>
       ELSE /\ pollNet' = InFlight
            /\ statusRequests' = statusRequests + 1
            /\ UNCHANGED paymentStatus

\* useEffect of PaymentSuccess, on mount
mountEffect ==
    /\ pollPc = "mount"
    /\ pollPc' = "run"
    /\ IF getUrlParameter("session_id") # ""
       THEN pollPaymentStatus(0)
       ELSE /\ paymentStatus' = "error"
            /\ UNCHANGED <<pollAttempts, pollNet, statusRequests>>
    /\ UNCHANGED <<otherThanPoll, pollMounted, unmountedAt, search, paymentDetails, pollTimer, pollHistory>>

\* The backend answers the outstanding status request.
statusBackend ==
    /\ pollNet = InFlight
    /\ \E d \in StatusData : pollNet' = Response(d)
    /\ UNCHANGED <<otherThanPoll, pollMounted, unmountedAt, search, paymentStatus, paymentDetails, pollPc, pollAttempts,
                   pollTimer, statusRequests, pollHistory>>

\* The outstanding status request fails in transport.
statusFails ==
    /\ pollNet = InFlight
    /\ pollNet' = Failure
    /\ UNCHANGED <<otherThanPoll, pollMounted, unmountedAt, search, paymentStatus, paymentDetails, pollPc, pollAttempts,
                   pollTimer, statusRequests, pollHistory>>

\* classify with the two tests in the other order.
classify_expiredFirst(data) ==
    IF data.status = "expired" THEN "expired"
    ELSE IF data.payment_status = "paid" THEN "success"
    ELSE "again"

\* classify without the else-if for an expired session.
classify_noExpired(data) ==
    IF data.payment_status = "paid" THEN "success"
    ELSE "again"

\* The if / else-if after the await: which way a response sends the poller.
classify(data) ==
    IF data.payment_status = "paid" THEN "success"
    ELSE IF data.status = "expired" THEN "expired"
    ELSE "again"

\* statusResolved without the two return statements: the timer is always set.
statusResolved_fallThrough ==
    /\ pollNet.state = "ok"
    /\ pollNet' = Idle
    /\ pollHistory' = Append(pollHistory, pollNet.data)
    /\ LET way == classify(pollNet.data) IN
         /\ paymentStatus' = IF way = "again" THEN paymentStatus ELSE way
         /\ paymentDetails' = IF way = "success" THEN pollNet.data ELSE paymentDetails
         /\ pollTimer' = TRUE
    /\ UNCHANGED <<otherThanPoll, pollMounted, unmountedAt, search, pollPc, pollAttempts, statusRequests>>

\* pollPaymentStatus after its await, try branch
statusResolved ==
    /\ pollNet.state = "ok"
    /\ pollNet' = Idle
    /\ pollHistory' = Append(pollHistory, pollNet.data)
    /\ LET way == classify(pollNet.data) IN
         /\ paymentStatus' = IF way = "again" THEN paymentStatus ELSE way
         /\ paymentDetails' = IF way = "success" THEN pollNet.data ELSE paymentDetails
         /\ pollTimer' = (way = "again")      \* setTimeout(..., pollInterval)
    /\ UNCHANGED <<otherThanPoll, pollMounted, unmountedAt, search, pollPc, pollAttempts, statusRequests>>

\* statusRejected retrying after an error instead of giving up.
statusRejected_retry ==
    /\ pollNet = Failure
    /\ pollNet' = Idle
    /\ pollTimer' = TRUE
    /\ UNCHANGED <<otherThanPoll, pollMounted, unmountedAt, search, paymentStatus, paymentDetails, pollPc,
                   pollAttempts, statusRequests, pollHistory>>

\* pollPaymentStatus after its await, catch branch
statusRejected ==
    /\ pollNet = Failure
    /\ pollNet' = Idle
    /\ paymentStatus' = "error"
    /\ UNCHANGED <<otherThanPoll, pollMounted, unmountedAt, search, paymentDetails, pollPc, pollAttempts, pollTimer,
                   statusRequests, pollHistory>>

\* timerFires with a callback that does not poll again.
timerFires_noPoll ==
    /\ pollTimer
    /\ pollTimer' = FALSE
    /\ UNCHANGED <<otherThanPoll, pollMounted, unmountedAt, search, paymentStatus, paymentDetails, pollPc,
                   pollAttempts, pollNet, statusRequests, pollHistory>>

\* The timer set by setTimeout fires: pollPaymentStatus(sessionId, attempts + 1)
timerFires ==
    /\ pollTimer
    /\ pollTimer' = FALSE
    /\ pollPaymentStatus(pollAttempts + 1)
    /\ UNCHANGED <<otherThanPoll, pollMounted, unmountedAt, search, paymentDetails, pollPc, pollHistory>>

\* An unmount whose effect cleanup clears the pending timer.
unmount_cleanup ==
    /\ pollPc = "run"
    /\ pollMounted
    /\ pollMounted' = FALSE
    /\ unmountedAt' = statusRequests
    /\ pollTimer' = FALSE
    /\ UNCHANGED <<otherThanPoll, search, paymentStatus, paymentDetails, pollPc,
                   pollAttempts, pollNet, statusRequests, pollHistory>>

\* The route changes away from /success: PaymentSuccess unmounts.  Its
\* effect returns no cleanup, so the request and the timer stay as they are.
\* From here on paymentStatus and paymentDetails are the values last handed
\* to their setters, which React no longer renders.
unmount ==
    /\ pollPc = "run"
    /\ pollMounted
    /\ pollMounted' = FALSE
    /\ unmountedAt' = statusRequests
    /\ UNCHANGED <<otherThanPoll, search, paymentStatus, paymentDetails, pollPc,
                   pollAttempts, pollNet, pollTimer, statusRequests, pollHistory>>

NextPoll ==
    \/ mountEffect
    \/ statusBackend
    \/ statusFails
    \/ statusResolved
    \/ statusRejected
    \/ timerFires
    \/ unmount

----------------------------------------------------------------------------
(* Cart synchronizer *)

\* A cart is a set of items; an item is a product id with a quantity.
Item(p, q) == [id |-> p, quantity |-> q]

Has(cart, p) == \E it \in cart : it.id = p

Qty(cart, p) == (CHOOSE it \in cart : it.id = p).quantity

Without(cart, p) == {it \in cart : it.id # p}

\* A click on a cart control of product p.
Gesture(g, p) == [g |-> g, prod |-> p]

\* A request as first sent: the backend has not seen it yet.
Req(op, p, q) == [op |-> op, prod |-> p, qty |-> q, stage |-> "sent", data |-> {}]

\* GET /cart/SESSION_ID
GetReq == Req("get", "-", 0)

Mutations == {"add", "update", "remove"}

Ev(ev, r, toast) == [ev |-> ev, op |-> r.op, prod |-> r.prod, qty |-> r.qty, toast |-> toast]

\* A handler that forgets its fetchCartItems() call.
fetchCartItems_skipped(r) == inflight (-) SetToBag({r})

\* fetchCartItems() as called from a handler that has just settled request r:
\* one GET is issued in r's place.
fetchCartItems(r) == (inflight (-) SetToBag({r})) (+) SetToBag({GetReq})

\* A handler that settles request r without calling fetchCartItems.
settle(r) == inflight (-) SetToBag({r})

\* The backend's treatment of the cart of SESSION_ID (server side).
backendAfterAdd(p) ==
    IF Has(backendCart, p)
    THEN Without(backendCart, p) \cup {Item(p, Qty(backendCart, p) + 1)}
    ELSE backendCart \cup {Item(p, 1)}

\* PUT ?quantity=q: the quantity sent is stored; what the backend does with a
\* quantity of zero or less is not fixed: it keeps it or drops the item.
backendAfterUpdate(p, q) ==
    IF ~Has(backendCart, p) THEN {backendCart}
    ELSE IF q >= 1 THEN {Without(backendCart, p) \cup {Item(p, q)}}
    ELSE {Without(backendCart, p) \cup {Item(p, q)}, Without(backendCart, p)}

backendAfterRemove(p) == Without(backendCart, p)

\* window.location: the page of the app, or the url of payment session n.
AppPage == [page |-> "app", session |-> 0]
CheckoutPage(n) == [page |-> "checkout", session |-> n]
\* response.data.url of a response that carries none
NoUrl == [page |-> "none", session |-> 0]

\* POST /checkout/create-session as first sent
CheckoutReq == [op |-> "checkout", prod |-> "-", qty |-> 0, stage |-> "sent", url |-> NoUrl]

checkoutVars == <<location, checkoutNet, sessionsCreated>>

\* Setting window.location.href unloads the page: nothing of it runs after.
PageLoaded == location = AppPage

\* Requests of AppContent that are not settled yet.
Outstanding == BagCardinality(inflight) + BagCardinality(checkoutNet)

InitCart ==
    \* PaymentSuccess is not shown: nothing of it runs
    /\ search = <<>>
    /\ paymentStatus = "checking"
    /\ paymentDetails = Null
    /\ pollPc = "mount"
    /\ pollAttempts = 0
    /\ pollNet = Idle
    /\ pollTimer = FALSE
    /\ statusRequests = 0
    /\ pollHistory = <<>>
    /\ pollMounted = FALSE
    /\ unmountedAt = 0
    \* the auth bootstrapper is left out of this page's specification
    /\ hash = <<>>
    /\ mountedWith = <<>>
    /\ user = "null"
    /\ loading = TRUE
    /\ authPc = "mount"
    /\ effectQueued = FALSE
    /\ meNet = "idle"
    /\ loginNet = "idle"
    /\ loginCalls = <<>>
    /\ authToast = "none"
    /\ route = "/"
    /\ profileQueued = FALSE
    /\ redirected = FALSE
    /\ meData = "null"
    /\ loginData = "null"
    /\ logoutNet = [sent |-> 0, ok |-> 0, error |-> 0]
    /\ logouts = 0
    /\ signedIn = FALSE
    \* AppContent as mounted
    /\ cartItems = {}
    /\ backendCart = {}
    /\ inflight = SetToBag({GetReq})       \* useEffect(fetchCartItems) on mount
    /\ adding = {}
    /\ clicks = 0
    /\ failed = FALSE
    /\ last = Ev("issued", GetReq, "none")
    /\ location = AppPage
    /\ checkoutNet = EmptyBag
    /\ sessionsCreated = 0
    /\ gestures = <<>>

MayClick == PageLoaded /\ clicks < MaxClicks /\ Outstanding < MaxInflight

\* A request r leaves the client.
issue(r) ==
    /\ MayClick
    /\ clicks' = clicks + 1
    /\ inflight' = inflight (+) SetToBag({r})
    /\ last' = Ev("issued", r, "none")
    /\ UNCHANGED <<otherThanCart, checkoutVars, cartItems, backendCart, failed>>

\* The backend handles request r, leaving cart c and answering with data d.
backend(r, c, d) ==
    /\ backendCart' = c
    /\ inflight' = (inflight (-) SetToBag({r}))
                        (+) SetToBag({[r EXCEPT !.stage = "done", !.data = d]})
    /\ last' = Ev("backend", r, "none")
    /\ UNCHANGED <<otherThanCart, gestures, checkoutVars, cartItems, adding, clicks, failed>>

Sent(op) == {r \in BagToSet(inflight) : r.op = op /\ r.stage = "sent"}
Done(op) == {r \in BagToSet(inflight) : r.op = op /\ r.stage = "done"}
Pending(op) == {r \in BagToSet(inflight) : r.op = op}

\* useEffect(() => fetchCartItems(), [user]) running again after user changed.
userEffect ==
    /\ issue(GetReq)
    /\ UNCHANGED <<adding, gestures>>

\* ProductCard button -> ProductCard.handleAddToCart -> AppContent.handleAddToCart
handleAddToCart(p) ==
    /\ p \notin adding                      \* disabled={isLoading}
    /\ issue(Req("add", p, 1))
    /\ adding' = adding \cup {p}
    /\ gestures' = Append(gestures, Gesture("add", p))

backendAdd ==
    \E r \in Sent("add") : backend(r, backendAfterAdd(r.prod), {})

handleAddToCartResolved ==
    /\ PageLoaded
    /\ \E r \in Done("add") :
        /\ inflight' = fetchCartItems(r)
        /\ adding' = adding \ {r.prod}
        /\ last' = Ev("resolved", r, "success")
        /\ UNCHANGED <<otherThanCart, gestures, checkoutVars, cartItems, backendCart, clicks, failed>>

handleAddToCartRejected ==
    /\ PageLoaded
    /\ \E r \in Pending("add") :
        /\ inflight' = settle(r)
        /\ adding' = adding \ {r.prod}
        /\ failed' = TRUE
        /\ last' = Ev("rejected", r, "error")
        /\ UNCHANGED <<otherThanCart, gestures, checkoutVars, cartItems, backendCart, clicks>>

\* A handleUpdateQuantity that refuses quantities below one: the click is
\* taken, no request is sent.
handleUpdateQuantity_validated(p, newQuantity) ==
    IF newQuantity >= 1
    THEN issue(Req("update", p, newQuantity)) /\ UNCHANGED adding
    ELSE /\ MayClick
         /\ clicks' = clicks + 1
         /\ last' = Ev("issued", Req("update", p, newQuantity), "none")
         /\ UNCHANGED <<otherThanCart, checkoutVars, cartItems, backendCart, inflight, adding, failed>>

\* AppContent.handleUpdateQuantity(productId, newQuantity) up to its await
handleUpdateQuantity(p, newQuantity) ==
    /\ issue(Req("update", p, newQuantity))
    /\ UNCHANGED adding

\* ShoppingCart: the plus and minus buttons of a displayed item
clickPlus(p) ==
    /\ Has(cartItems, p)
    /\ handleUpdateQuantity(p, Qty(cartItems, p) + 1)
    /\ gestures' = Append(gestures, Gesture("plus", p))

clickMinus(p) ==
    /\ Has(cartItems, p)
    /\ handleUpdateQuantity(p, Qty(cartItems, p) - 1)
    /\ gestures' = Append(gestures, Gesture("minus", p))

backendUpdate ==
    \E r \in Sent("update") :
        \E c \in backendAfterUpdate(r.prod, r.qty) : backend(r, c, {})

handleUpdateQuantityResolved ==
    /\ PageLoaded
    /\ \E r \in Done("update") :
        /\ inflight' = fetchCartItems(r)
        /\ last' = Ev("resolved", r, "none")
        /\ UNCHANGED <<otherThanCart, gestures, checkoutVars, cartItems, backendCart, adding, clicks, failed>>

handleUpdateQuantityRejected ==
    /\ PageLoaded
    /\ \E r \in Pending("update") :
        /\ inflight' = settle(r)
        /\ failed' = TRUE
        /\ last' = Ev("rejected", r, "error")
        /\ UNCHANGED <<otherThanCart, gestures, checkoutVars, cartItems, backendCart, adding, clicks>>

\* ShoppingCart "Remove" -> AppContent.handleRemoveItem up to its await
handleRemoveItem(p) ==
    /\ Has(cartItems, p)
    /\ issue(Req("remove", p, 0))
    /\ UNCHANGED adding
    /\ gestures' = Append(gestures, Gesture("remove", p))

backendRemove ==
    \E r \in Sent("remove") : backend(r, backendAfterRemove(r.prod), {})

handleRemoveItemResolved ==
    /\ PageLoaded
    /\ \E r \in Done("remove") :
        /\ inflight' = fetchCartItems(r)
        /\ last' = Ev("resolved", r, "success")
        /\ UNCHANGED <<otherThanCart, gestures, checkoutVars, cartItems, backendCart, adding, clicks, failed>>

handleRemoveItemRejected ==
    /\ PageLoaded
    /\ \E r \in Pending("remove") :
        /\ inflight' = settle(r)
        /\ failed' = TRUE
        /\ last' = Ev("rejected", r, "error")
        /\ UNCHANGED <<otherThanCart, gestures, checkoutVars, cartItems, backendCart, adding, clicks>>

backendGet ==
    \E r \in Sent("get") : backend(r, backendCart, backendCart)

\* A fetchCartItems that merges the response into the displayed list.
fetchCartItemsResolved_merge ==
    /\ PageLoaded
    /\ \E r \in Done("get") :
        /\ cartItems' = cartItems \cup r.data
        /\ inflight' = settle(r)
        /\ last' = Ev("resolved", r, "none")
        /\ UNCHANGED <<otherThanCart, gestures, checkoutVars, backendCart, adding, clicks, failed>>

\* fetchCartItems after its await: setCartItems(response.data)
fetchCartItemsResolved ==
    /\ PageLoaded
    /\ \E r \in Done("get") :
        /\ cartItems' = r.data
        /\ inflight' = settle(r)
        /\ last' = Ev("resolved", r, "none")
        /\ UNCHANGED <<otherThanCart, gestures, checkoutVars, backendCart, adding, clicks, failed>>

\* fetchCartItems catch: console.error only
fetchCartItemsRejected ==
    /\ PageLoaded
    /\ \E r \in Pending("get") :
        /\ inflight' = settle(r)
        /\ failed' = TRUE
        /\ last' = Ev("rejected", r, "none")
        /\ UNCHANGED <<otherThanCart, gestures, checkoutVars, cartItems, backendCart, adding, clicks>>

\* A handleCheckout that ignores the click while a create-session request is
\* outstanding.
handleCheckout_guarded ==
    /\ cartItems # {}
    /\ MayClick
    /\ clicks' = clicks + 1
    /\ checkoutNet' = IF checkoutNet = EmptyBag THEN SetToBag({CheckoutReq})
                                               ELSE checkoutNet
    /\ last' = Ev("issued", CheckoutReq, "none")
    /\ gestures' = Append(gestures, Gesture("checkout", "-"))
    /\ UNCHANGED <<otherThanCart, cartItems, backendCart, inflight, adding, failed,
                   location, sessionsCreated>>

\* ShoppingCart "Proceed to Checkout" -> AppContent.handleCheckout up to its
\* await.  The button is rendered only for a non-empty displayed cart.
handleCheckout ==
    /\ cartItems # {}
    /\ MayClick
    /\ clicks' = clicks + 1
    /\ checkoutNet' = checkoutNet (+) SetToBag({CheckoutReq})
    /\ last' = Ev("issued", CheckoutReq, "none")
    /\ gestures' = Append(gestures, Gesture("checkout", "-"))
    /\ UNCHANGED <<otherThanCart, cartItems, backendCart, inflight, adding, failed,
                   location, sessionsCreated>>

CheckoutSent == {r \in BagToSet(checkoutNet) : r.stage = "sent"}
CheckoutDone == {r \in BagToSet(checkoutNet) : r.stage = "done"}

\* The backend answers request r with url u.
checkoutAnswer(r, u) ==
    /\ checkoutNet' = (checkoutNet (-) SetToBag({r}))
                          (+) SetToBag({[r EXCEPT !.stage = "done", !.url = u]})
    /\ last' = Ev("backend", r, "none")
    /\ UNCHANGED <<otherThanCart, gestures, cartItems, backendCart, inflight, adding, clicks,
                   failed, location>>

\* The backend creates a payment session and answers with its url.
backendCheckout ==
    \E r \in CheckoutSent :
        /\ sessionsCreated' = sessionsCreated + 1
        /\ checkoutAnswer(r, CheckoutPage(sessionsCreated + 1))

\* The backend answers 2xx with no url in the body.
backendCheckoutNoUrl ==
    \E r \in CheckoutSent :
        /\ sessionsCreated' = sessionsCreated
        /\ checkoutAnswer(r, NoUrl)

\* A handleCheckout that assigns whatever response.data.url holds.
handleCheckoutResolved_alwaysRedirects ==
    /\ PageLoaded
    /\ \E r \in CheckoutDone :
        /\ checkoutNet' = checkoutNet (-) SetToBag({r})
        /\ location' = r.url
        /\ last' = Ev("resolved", r, "none")
        /\ UNCHANGED <<otherThanCart, gestures, cartItems, backendCart, inflight, adding, clicks,
                       failed, sessionsCreated>>

\* handleCheckout after its await
handleCheckoutResolved ==
    /\ PageLoaded
    /\ \E r \in CheckoutDone :
        /\ checkoutNet' = checkoutNet (-) SetToBag({r})
        /\ IF r.url # NoUrl
           THEN /\ location' = r.url
                /\ last' = Ev("resolved", r, "none")
           ELSE /\ location' = location
                /\ last' = Ev("resolved", r, "Failed to create checkout session")
        /\ UNCHANGED <<otherThanCart, gestures, cartItems, backendCart, inflight, adding, clicks,
                       failed, sessionsCreated>>

\* handleCheckout catch
handleCheckoutRejected ==
    /\ PageLoaded
    /\ \E r \in BagToSet(checkoutNet) :
        /\ checkoutNet' = checkoutNet (-) SetToBag({r})
        /\ failed' = TRUE
        /\ last' = Ev("rejected", r, "Failed to initiate checkout")
        /\ UNCHANGED <<otherThanCart, gestures, cartItems, backendCart, inflight, adding, clicks,
                       location, sessionsCreated>>

NextCart ==
    \/ userEffect
    \/ \E p \in Products : handleAddToCart(p)
    \/ \E p \in Products : clickPlus(p)
    \/ \E p \in Products : clickMinus(p)
    \/ \E p \in Products : handleRemoveItem(p)
    \/ backendAdd
    \/ backendUpdate
    \/ backendRemove
    \/ backendGet
    \/ handleAddToCartResolved
    \/ handleAddToCartRejected
    \/ handleUpdateQuantityResolved
    \/ handleUpdateQuantityRejected
    \/ handleRemoveItemResolved
    \/ handleRemoveItemRejected
    \/ fetchCartItemsResolved
    \/ fetchCartItemsRejected
    \/ handleCheckout
    \/ backendCheckout
    \/ backendCheckoutNoUrl
    \/ handleCheckoutResolved
    \/ handleCheckoutRejected

SpecCart == InitCart /\ [][NextCart]_vars

SpecPoll == InitPoll /\ [][NextPoll]_vars

\* Every status request completes, every continuation and every timer runs.
SpecPollFair ==
    /\ SpecPoll
    /\ WF_vars(mountEffect)
    /\ WF_vars((statusBackend \/ statusFails))
    /\ WF_vars(statusResolved)
    /\ WF_vars(statusRejected)
    /\ WF_vars(timerFires)

----------------------------------------------------------------------------
(* Auth bootstrapper *)

\* The fragment is a list of tokens: K stands for the text 'session_id=',
\* the others for themselves.
K == "session_id="
Tokens == {K, "&", "a", "b", " "}

Fragments == UNION {[1..n -> Tokens] : n \in 0..MaxHashLen}

\* String.prototype.includes for a one-token needle
includes(str, tok) == \E i \in 1..Len(str) : str[i] = tok

\* String.prototype.split for a one-token separator: the list of the pieces
RECURSIVE split(_, _)
split(str, sep) ==
    IF ~includes(str, sep) THEN <<str>>
    ELSE LET i == CHOOSE k \in 1..Len(str) :
                      str[k] = sep /\ \A j \in 1..(k - 1) : str[j] # sep
         IN  <<SubSeq(str, 1, i - 1)>> \o split(SubSeq(str, i + 1, Len(str)), sep)

\* String.prototype.trim
RECURSIVE trim(_)
trim(str) ==
    IF str = <<>> THEN str
    ELSE IF Head(str) = " " THEN trim(Tail(str))
    ELSE IF str[Len(str)] = " " THEN trim(SubSeq(str, 1, Len(str) - 1))
    ELSE str

\* fragment.split('session_id=')[1].split('&')[0]
extractSessionId(fragment) == split(split(fragment, K)[2], "&")[1]

InitAuth ==
    \* the cart page is not shown: nothing of it runs
    /\ cartItems = {}
    /\ backendCart = {}
    /\ inflight = EmptyBag
    /\ adding = {}
    /\ clicks = 0
    /\ failed = FALSE
    /\ last = [ev |-> "none", op |-> "-", prod |-> "-", qty |-> 0, toast |-> "none"]
    /\ location = [page |-> "app", session |-> 0]
    /\ checkoutNet = EmptyBag
    /\ sessionsCreated = 0
    /\ gestures = <<>>
    \* PaymentSuccess is not shown: nothing of it runs
    /\ search = <<>>
    /\ paymentStatus = "checking"
    /\ paymentDetails = Null
    /\ pollPc = "mount"
    /\ pollAttempts = 0
    /\ pollNet = Idle
    /\ pollTimer = FALSE
    /\ statusRequests = 0
    /\ pollHistory = <<>>
    /\ pollMounted = FALSE
    /\ unmountedAt = 0
    \* AuthProvider as constructed, before its mount effects
    /\ hash \in Fragments
    /\ mountedWith = hash
    /\ user = "null"
    /\ loading = TRUE
    /\ authPc = "mount"
    /\ effectQueued = FALSE
    /\ meNet = "idle"
    /\ loginNet = "idle"
    /\ loginCalls = <<>>
    /\ authToast = "none"
    /\ route \in {"/profile", "/"}
    /\ profileQueued = FALSE
    /\ redirected = FALSE
    /\ meData = "null"
    /\ loginData = "null"
    /\ logoutNet = [sent |-> 0, ok |-> 0, error |-> 0]
    /\ logouts = 0
    /\ signedIn = FALSE

\* The user records the backend can answer with.
Users == {"u1", "u2"}

\* setLoading(false): when loading changes, the [loading] effect of AuthProvider
\* and the effect of UserProfile (if it is shown) are due to run again.
setLoadingFalse ==
    /\ loading' = FALSE
    /\ effectQueued' = (effectQueued \/ loading)

\* The effect of UserProfile is due again when user or loading has changed.
rerender == profileQueued' =
    (route = "/profile" /\ (profileQueued \/ user' # user \/ loading' # loading))

\* handleAuthCallback up to its await (or to its end when it awaits nothing)
handleAuthCallback ==
    IF includes(hash, K)
    THEN LET sessionId == extractSessionId(hash) IN
         IF sessionId # <<>> /\ trim(sessionId) # <<>>
         THEN /\ loginNet' = "pending"
              /\ loginCalls' = Append(loginCalls, trim(sessionId))
              /\ UNCHANGED <<loading, effectQueued, authToast>>
         ELSE /\ authToast' = "Invalid authentication response"
              /\ setLoadingFalse
              /\ UNCHANGED <<loginNet, loginCalls>>
    ELSE /\ setLoadingFalse
         /\ UNCHANGED <<loginNet, loginCalls, authToast>>

\* The effects of the first commit, in order: the effect of UserProfile (if it
\* is shown) returns at once since loading is true; then checkAuth() is called,
\* then handleAuthCallback() since loading is true.
mountEffects ==
    /\ authPc = "mount"
    /\ authPc' = "run"
    /\ meNet' = "pending"
    /\ IF loading THEN handleAuthCallback
       ELSE UNCHANGED <<loading, effectQueued, loginNet, loginCalls, authToast>>
    /\ UNCHANGED <<otherThanAuth, hash, mountedWith, user, route, redirected, meData,
                   loginData, logoutNet, logouts, signedIn>>
    /\ rerender

\* The effect with dependency [loading] running again after loading changed.
loadingEffect ==
    /\ effectQueued
    /\ IF loading
       THEN /\ handleAuthCallback
            /\ effectQueued' = FALSE
       ELSE /\ effectQueued' = FALSE
            /\ UNCHANGED <<loading, loginNet, loginCalls, authToast>>
    /\ UNCHANGED <<otherThanAuth, hash, mountedWith, user, authPc, meNet, route,
                   redirected, meData, loginData, logoutNet, logouts, signedIn>>
    /\ rerender

\* The backend answers GET /auth/me with the user of the session cookie.
meBackend ==
    /\ meNet = "pending"
    /\ meNet' = "ok"
    /\ meData' \in Users
    /\ UNCHANGED <<otherThanAuth, hash, mountedWith, user, loading, authPc,
                   effectQueued, loginNet, loginCalls, authToast, route,
                   profileQueued, redirected, loginData, logoutNet, logouts, signedIn>>

\* GET /auth/me fails: no session (401) or a transport failure.
meFails ==
    /\ meNet = "pending"
    /\ meNet' = "error"
    /\ UNCHANGED <<otherThanAuth, hash, mountedWith, user, loading, authPc,
                   effectQueued, loginNet, loginCalls, authToast, route,
                   profileQueued, redirected, meData, loginData, logoutNet, logouts,
                   signedIn>>

\* checkAuth after its await: try, then finally
checkAuthResolved ==
    /\ meNet = "ok"
    /\ meNet' = "done"
    /\ user' = meData
    /\ signedIn' = TRUE
    /\ setLoadingFalse
    /\ UNCHANGED <<otherThanAuth, hash, mountedWith, authPc, loginNet, loginCalls,
                   authToast, route, redirected, meData, loginData, logoutNet, logouts>>
    /\ rerender

\* checkAuth's catch branch with a setUser(null) added to it.
checkAuthRejected_clearsUser ==
    /\ meNet = "error"
    /\ meNet' = "done"
    /\ user' = "null"
    /\ setLoadingFalse
    /\ UNCHANGED <<otherThanAuth, hash, mountedWith, authPc, loginNet, loginCalls,
                   authToast, route, redirected, meData, loginData, logoutNet, logouts,
                   signedIn>>
    /\ rerender

\* checkAuth with its setUser moved into the finally block.
checkAuthRejected_setsUser ==
    /\ meNet = "error"
    /\ meNet' = "done"
    /\ user' = "u1"
    /\ setLoadingFalse
    /\ UNCHANGED <<otherThanAuth, hash, mountedWith, authPc, loginNet, loginCalls,
                   authToast, route, redirected, meData, loginData, logoutNet, logouts,
                   signedIn>>
    /\ rerender

\* checkAuth after its await: catch, then finally
checkAuthRejected ==
    /\ meNet = "error"
    /\ meNet' = "done"
    /\ setLoadingFalse
    /\ UNCHANGED <<otherThanAuth, hash, mountedWith, user, authPc, loginNet,
                   loginCalls, authToast, route, redirected, meData, loginData,
                   logoutNet, logouts, signedIn>>
    /\ rerender

\* The backend exchanges the session id for a user record.
loginBackend ==
    /\ loginNet = "pending"
    /\ loginNet' = "ok"
    /\ loginData' \in Users
    /\ UNCHANGED <<otherThanAuth, hash, mountedWith, user, loading, authPc,
                   effectQueued, meNet, loginCalls, authToast, route, profileQueued,
                   redirected, meData, logoutNet, logouts, signedIn>>

\* POST /auth/login fails: the session id is refused, or a transport failure.
loginFails ==
    /\ loginNet = "pending"
    /\ loginNet' = "error"
    /\ UNCHANGED <<otherThanAuth, hash, mountedWith, user, loading, authPc,
                   effectQueued, meNet, loginCalls, authToast, route, profileQueued,
                   redirected, meData, loginData, logoutNet, logouts, signedIn>>

\* handleAuthCallback after its await, try branch
handleAuthCallbackResolved ==
    /\ loginNet = "ok"
    /\ loginNet' = "done"
    /\ user' = loginData
    /\ signedIn' = TRUE
    /\ authToast' = "Welcome"
    /\ hash' = <<>>                        \* history.replaceState(..., pathname)
    /\ UNCHANGED <<otherThanAuth, mountedWith, loading, authPc, effectQueued, meNet,
                   loginCalls, route, redirected, meData, loginData, logoutNet, logouts>>
    /\ rerender

\* handleAuthCallback after its await, catch branch
handleAuthCallbackRejected ==
    /\ loginNet = "error"
    /\ loginNet' = "done"
    /\ authToast' = "Authentication failed"
    /\ setLoadingFalse
    /\ UNCHANGED <<otherThanAuth, hash, mountedWith, user, authPc, meNet, loginCalls,
                   route, redirected, meData, loginData, logoutNet, logouts, signedIn>>
    /\ rerender

\* The effect of UserProfile without its "still loading, wait" test.
profileEffect_noWait ==
    /\ profileQueued
    /\ route = "/profile"
    /\ profileQueued' = FALSE
    /\ IF ~includes(hash, K) /\ user = "null"
       THEN route' = "/" /\ redirected' = TRUE
       ELSE UNCHANGED <<route, redirected>>
    /\ UNCHANGED <<otherThanAuth, hash, mountedWith, user, loading, authPc,
                   effectQueued, meNet, loginNet, loginCalls, authToast, meData,
                   loginData, logoutNet, logouts, signedIn>>

\* The effect of UserProfile without its navigate('/').
profileEffect_stays ==
    /\ profileQueued
    /\ route = "/profile"
    /\ profileQueued' = FALSE
    /\ UNCHANGED <<otherThanAuth, hash, mountedWith, user, loading, authPc,
                   effectQueued, meNet, loginNet, loginCalls, authToast, meData,
                   loginData, logoutNet, logouts, signedIn, route, redirected>>

\* useEffect of UserProfile, dependencies [user, loading, navigate]
profileEffect ==
    /\ profileQueued
    /\ route = "/profile"
    /\ profileQueued' = FALSE
    /\ IF includes(hash, K) THEN UNCHANGED <<route, redirected>>
       ELSE IF loading THEN UNCHANGED <<route, redirected>>
       ELSE IF ~loading /\ user = "null"
            THEN route' = "/" /\ redirected' = TRUE
            ELSE UNCHANGED <<route, redirected>>
    /\ UNCHANGED <<otherThanAuth, hash, mountedWith, user, loading, authPc,
                   effectQueued, meNet, loginNet, loginCalls, authToast, meData,
                   loginData, logoutNet, logouts, signedIn>>

\* UserProfile's buttons: "Back to Home" on the Authentication Failed screen,
\* "Continue Shopping" on the welcome screen; neither shows on the loading view.
profileButton ==
    /\ route = "/profile"
    /\ ~(loading \/ includes(hash, K))
    /\ route' = "/"
    /\ profileQueued' = FALSE
    /\ UNCHANGED <<otherThanAuth, hash, mountedWith, user, loading, authPc,
                   effectQueued, meNet, loginNet, loginCalls, authToast, redirected,
                   meData, loginData, logoutNet, logouts, signedIn>>

\* logout up to its await: the Logout button of AppContent's header
logout ==
    /\ route = "/"
    /\ ~loading
    /\ user # "null"
    /\ logouts < MaxLogouts
    /\ logouts' = logouts + 1
    /\ logoutNet' = [logoutNet EXCEPT !.sent = @ + 1]
    /\ UNCHANGED <<otherThanAuth, hash, mountedWith, user, loading, authPc,
                   effectQueued, meNet, loginNet, loginCalls, authToast, route,
                   profileQueued, redirected, meData, loginData, signedIn>>

\* The backend ends the session.
logoutBackend ==
    /\ logoutNet.sent > 0
    /\ logoutNet' = [logoutNet EXCEPT !.sent = @ - 1, !.ok = @ + 1]
    /\ UNCHANGED <<otherThanAuth, hash, mountedWith, user, loading, authPc,
                   effectQueued, meNet, loginNet, loginCalls, authToast, route,
                   profileQueued, redirected, meData, loginData, logouts, signedIn>>

\* POST /auth/logout fails.
logoutFails ==
    /\ logoutNet.sent > 0
    /\ logoutNet' = [logoutNet EXCEPT !.sent = @ - 1, !.error = @ + 1]
    /\ UNCHANGED <<otherThanAuth, hash, mountedWith, user, loading, authPc,
                   effectQueued, meNet, loginNet, loginCalls, authToast, route,
                   profileQueued, redirected, meData, loginData, logouts, signedIn>>

\* logout after its await, try branch
logoutResolved ==
    /\ logoutNet.ok > 0
    /\ logoutNet' = [logoutNet EXCEPT !.ok = @ - 1]
    /\ user' = "null"
    /\ signedIn' = FALSE
    /\ authToast' = "Logged out successfully"
    /\ UNCHANGED <<otherThanAuth, hash, mountedWith, loading, authPc, effectQueued,
                   meNet, loginNet, loginCalls, route, redirected, meData, loginData,
                   logouts>>
    /\ rerender

\* logout with its setUser(null) moved after the try / catch.
logoutRejected_clearsUser ==
    /\ logoutNet.error > 0
    /\ logoutNet' = [logoutNet EXCEPT !.error = @ - 1]
    /\ user' = "null"
    /\ UNCHANGED <<otherThanAuth, hash, mountedWith, loading, authPc, effectQueued,
                   meNet, loginNet, loginCalls, authToast, route, redirected, meData,
                   loginData, logouts, signedIn>>
    /\ rerender

\* logout after its await, catch branch: console.error only
logoutRejected ==
    /\ logoutNet.error > 0
    /\ logoutNet' = [logoutNet EXCEPT !.error = @ - 1]
    /\ UNCHANGED <<otherThanAuth, hash, mountedWith, user, loading, authPc,
                   effectQueued, meNet, loginNet, loginCalls, authToast, route,
                   profileQueued, redirected, meData, loginData, logouts, signedIn>>

NextAuth ==
    \/ mountEffects
    \/ loadingEffect
    \/ meBackend
    \/ meFails
    \/ checkAuthResolved
    \/ checkAuthRejected
    \/ loginBackend
    \/ loginFails
    \/ handleAuthCallbackResolved
    \/ handleAuthCallbackRejected
    \/ profileEffect
    \/ profileButton
    \/ logout
    \/ logoutBackend
    \/ logoutFails
    \/ logoutResolved
    \/ logoutRejected

SpecAuth == InitAuth /\ [][NextAuth]_vars

\* Every effect that is due runs, every request is answered or fails, and
\* every continuation runs.  The user's clicks are under no obligation.
SpecAuthFair ==
    /\ SpecAuth
    /\ WF_vars(mountEffects)
    /\ WF_vars(loadingEffect)
    /\ WF_vars(meBackend \/ meFails)
    /\ WF_vars(checkAuthResolved)
    /\ WF_vars(checkAuthRejected)
    /\ WF_vars(loginBackend \/ loginFails)
    /\ WF_vars(handleAuthCallbackResolved)
    /\ WF_vars(handleAuthCallbackRejected)
    /\ WF_vars(profileEffect)
    /\ WF_vars(logoutBackend \/ logoutFails)
    /\ WF_vars(logoutResolved)
    /\ WF_vars(logoutRejected)

----------------------------------------------------------------------------
(* Claims about the payment-status poller *)

Terminal == {"success", "expired", "timeout", "error"}

\* The poller neither waits for an answer nor for a timer.
PollQuiet == pollNet = Idle /\ ~pollTimer

\* This step handles the answer (or the failure) of the status request.
Handles == pollNet.state \in {"ok", "error"} /\ pollNet' # pollNet

\* C2: a run of pollPaymentStatus started with attempts = 0 issues at most 5
\* status requests, and paymentStatus is 'timeout' only after 5 polls have each
\* returned a response that is neither paid nor expired.
C2_AtMostFivePolls ==
    /\ statusRequests <= maxAttempts
    /\ paymentStatus = "timeout" =>
          /\ statusRequests = maxAttempts
          /\ Len(pollHistory) = maxAttempts
          /\ \A i \in 1..Len(pollHistory) :
                /\ pollHistory[i].payment_status # "paid"
                /\ pollHistory[i].status # "expired"

C2_Witness == paymentStatus = "timeout" /\ statusRequests = maxAttempts

\* C3: handling a response with payment_status = 'paid', whatever its status
\* field, sets paymentStatus to 'success' and paymentDetails to that response
\* in the same step, and from then on no status request is issued and no timer
\* is set.
C3_PaidMeansSuccess ==
    [][ /\ (Handles /\ pollNet.state = "ok" /\ pollNet.data.payment_status = "paid") =>
             /\ paymentStatus' = "success"
             /\ paymentDetails' = pollNet.data
             /\ PollQuiet'
             /\ statusRequests' = statusRequests
        /\ paymentStatus = "success" =>
             (PollQuiet' /\ statusRequests' = statusRequests /\ paymentStatus' = "success")
      ]_vars

C3_Witness ==
    /\ paymentStatus = "success"
    /\ paymentDetails = [payment_status |-> "paid", status |-> "expired"]
    /\ statusRequests = 3

\* C4: handling a response with status = 'expired' and payment_status other
\* than 'paid' sets paymentStatus to 'expired', and from then on no status
\* request is issued and no timer is set.
C4_ExpiredStops ==
    [][ /\ (Handles /\ pollNet.state = "ok" /\ pollNet.data.status = "expired"
                    /\ pollNet.data.payment_status # "paid") =>
             /\ paymentStatus' = "expired"
             /\ PollQuiet'
             /\ statusRequests' = statusRequests
        /\ paymentStatus = "expired" =>
             (PollQuiet' /\ statusRequests' = statusRequests /\ paymentStatus' = "expired")
      ]_vars

C4_Witness ==
    /\ paymentStatus = "expired"
    /\ pollHistory[Len(pollHistory)] = [payment_status |-> "unpaid", status |-> "expired"]
    /\ PollQuiet

\* C5: when a status request fails, on whichever attempt, paymentStatus becomes
\* 'error' in the step that handles the failure, and from then on no status
\* request is issued and no timer is set.
C5_FailureMeansError ==
    [][ /\ (Handles /\ pollNet.state = "error") =>
             /\ paymentStatus' = "error"
             /\ PollQuiet'
             /\ statusRequests' = statusRequests
        /\ paymentStatus = "error" =>
             (PollQuiet' /\ statusRequests' = statusRequests /\ paymentStatus' = "error")
      ]_vars

C5_Witness ==
    /\ paymentStatus = "error"
    /\ statusRequests = 1
    /\ PollQuiet

\* C6: paymentStatus starts as 'checking' and stays within checking, success,
\* expired, timeout, error; it changes only from 'checking' to a terminal
\* state; in a terminal state nothing is outstanding, and nothing changes or
\* is issued any more.
C6_StateMachine ==
    /\ paymentStatus = "checking"
    /\ [][ /\ paymentStatus' \in Terminal \cup {"checking"}
           /\ paymentStatus' # paymentStatus =>
                (paymentStatus = "checking" /\ paymentStatus' \in Terminal)
           /\ paymentStatus' \in Terminal => PollQuiet'
           /\ paymentStatus \in Terminal =>
                (paymentStatus' = paymentStatus /\ statusRequests' = statusRequests)
         ]_vars

C6_Witness ==
    /\ paymentStatus \in Terminal
    /\ statusRequests = 2
    /\ PollQuiet

\* C7: when every status request completes and every timer fires, the poller
\* eventually leaves 'checking'.
C7_EventuallySettles == <>(paymentStatus \in Terminal)

C7_Witness ==
    /\ paymentStatus \in Terminal
    /\ pollPc = "run"
    /\ statusRequests = 4

----------------------------------------------------------------------------
(* Claims about the cart synchronizer *)

\* The number of refresh requests that have just left the client.
Refreshes == CopiesIn(GetReq, inflight)

\* The step just taken settled a request of one of these kinds.
Settled(evs, ops) == last.ev \in evs /\ last.op \in ops

\* C1: with every request succeeding, whenever no cart request is outstanding
\* the displayed cart equals the backend's cart of SESSION_ID.
C1_NoDrift ==
    (~failed /\ inflight = EmptyBag) => cartItems = backendCart

\* C8 as stated: once a mutating request has completed, with whatever outcome,
\* a refresh request is issued.
C8_RefreshWhateverOutcome ==
    [][ Settled({"resolved", "rejected"}, Mutations)' => Refreshes' = Refreshes + 1 ]_vars

\* C8 as amended: a mutating request that succeeds is followed at once by a
\* refresh request; one that fails is followed by none.
C8_RefreshAfterSuccess ==
    [][ /\ Settled({"resolved"}, Mutations)' => Refreshes' = Refreshes + 1
        /\ Settled({"rejected"}, Mutations)' => Refreshes' = Refreshes
      ]_vars

C8_Witness ==
    /\ Settled({"resolved"}, {"update"})
    /\ Refreshes = 1
    /\ failed

\* C9: the failure of any cart request (add, update, remove or refresh) shows
\* an error toast, and the step that handles it issues no request.
C9_FailureToastNoRetry ==
    [][ Settled({"rejected"}, Mutations \cup {"get"})' =>
          /\ last'.toast = "error"
          /\ BagCardinality(inflight') = BagCardinality(inflight) - 1
      ]_vars

----------------------------------------------------------------------------
(* Claims about the auth bootstrapper *)

\* The page was loaded with a fragment holding session_id=<v>, v a non-empty
\* value without blanks around it.
MountedWithSessionId ==
    /\ includes(mountedWith, K)
    /\ extractSessionId(mountedWith) # <<>>
    /\ trim(extractSessionId(mountedWith)) = extractSessionId(mountedWith)

\* C10: a page mounted with session_id=<v> in its fragment issues exactly one
\* POST /auth/login, carrying v, and once that exchange has completed the
\* fragment is gone from the URL.
C10_OneExchangeThenNoFragment ==
    MountedWithSessionId =>
        /\ Len(loginCalls) <= 1
        /\ authPc = "run" =>
              loginCalls = <<extractSessionId(mountedWith)>>
        /\ loginNet = "done" => ~includes(hash, K)

\* A step that is not a stuttering step is described by last': what was done
\* (issued, backend, resolved, rejected) and to which kind of request.
Does(ev, ops) == last'.ev = ev /\ last'.op \in ops

\* C15: handleUpdateQuantity validates nothing.  Plus and minus on a displayed
\* item are never refused for the quantity they would send, and each sends
\* exactly one PUT carrying the displayed quantity plus or minus one, also
\* when that is zero or negative.
C15_NoClientValidation ==
    /\ [](\A p \in Products : (MayClick /\ Has(cartItems, p)) => ENABLED clickMinus(p))
    /\ [][ (clicks' = clicks + 1 /\ Does("issued", {"update"})) =>
             \E p \in Products :
                 /\ Has(cartItems, p)
                 /\ last'.prod = p
                 /\ last'.qty \in {Qty(cartItems, p) + 1, Qty(cartItems, p) - 1}
                 /\ inflight' = inflight (+) SetToBag({Req("update", p, last'.qty)}) ]_vars

\* The minus button pressed on an item shown with quantity 1: a PUT with
\* quantity 0 is on its way.
C15_Witness ==
    /\ last.ev = "issued" /\ last.op = "update" /\ last.qty = 0
    /\ Has(cartItems, last.prod) /\ Qty(cartItems, last.prod) = 1
    /\ Req("update", last.prod, 0) \in BagToSet(inflight)

\* C16: cartItems changes only in the step that handles a successful refresh
\* response, and then becomes exactly that response's payload; issuing,
\* completing or failing an add, update or remove, and a failed refresh,
\* leave it as it was.
C16_OnlyRefreshReplaces ==
    [][ /\ cartItems' # cartItems => Does("resolved", {"get"})
        /\ Does("resolved", {"get"}) =>
              \E r \in Done("get") : cartItems' = r.data /\ inflight' = settle(r)
        /\ (last'.op \in Mutations \/ Does("rejected", {"get"})) =>
              cartItems' = cartItems ]_vars

\* A refresh has replaced the list showing one p1 by a list showing two.
C16_Witness ==
    /\ last.ev = "resolved" /\ last.op = "get"
    /\ cartItems = {Item("p1", 2)}


\* C14: handleCheckout after its request has settled.  A response carrying a
\* url sets window.location to that url at once.  A response without url, or
\* a failed request, shows an error toast and leaves window.location and the
\* displayed cart as they were.  Nothing else changes window.location.
C14_CheckoutOutcome ==
    [][ /\ Does("resolved", {"checkout"}) =>
              \E r \in CheckoutDone :
                  /\ checkoutNet' = checkoutNet (-) SetToBag({r})
                  /\ r.url # NoUrl => /\ location' = r.url
                                      /\ last'.toast = "none"
                  /\ r.url = NoUrl => /\ last'.toast = "Failed to create checkout session"
                                      /\ location' = location
                                      /\ cartItems' = cartItems
        /\ Does("rejected", {"checkout"}) =>
              /\ last'.toast = "Failed to initiate checkout"
              /\ location' = location
              /\ cartItems' = cartItems
        /\ location' # location => Does("resolved", {"checkout"}) ]_vars

\* A request has failed, the page stayed; the next one answered with the url
\* of session 1 and the browser is there.
C14_Witness ==
    /\ last.ev = "resolved" /\ last.op = "checkout"
    /\ failed
    /\ location = CheckoutPage(1)
    /\ cartItems # {}

\* C17: handleCheckout has no in-flight guard.  The button of a non-empty
\* cart is never refused because a create-session request is outstanding,
\* every invocation sends one more request, identical to the others (no
\* idempotency key), and the backend creates a session for each.
C17_NoInFlightGuard ==
    /\ []((MayClick /\ cartItems # {}) => ENABLED handleCheckout)
    /\ [][ (clicks' = clicks + 1 /\ Does("issued", {"checkout"})) =>
             checkoutNet' = checkoutNet (+) SetToBag({CheckoutReq}) ]_vars
    /\ [][ sessionsCreated' = sessionsCreated + 1 =>
             \E r \in CheckoutSent : CopiesIn(r, checkoutNet') = CopiesIn(r, checkoutNet) - 1 ]_vars

\* Two invocations before any response was handled: two sessions exist for
\* the one cart, the page still shows it.
C17_Witness ==
    /\ sessionsCreated = 2
    /\ BagCardinality(checkoutNet) = 2
    /\ CheckoutSent = {}
    /\ PageLoaded


\* C19: unmounting PaymentSuccess cancels nothing.  The step that unmounts
\* leaves the pending timer and the outstanding request as they are; a timer
\* pending after the unmount still fires, into a further status request or
\* the attempt limit; and a poller unmounted while 'checking' goes on to a
\* terminal result or the attempt limit.
C19_TimerSurvivesUnmount ==
    /\ [][ (pollMounted /\ ~pollMounted') =>
             /\ pollTimer' = pollTimer
             /\ pollNet' = pollNet
             /\ pollAttempts' = pollAttempts ]_vars
    /\ (~pollMounted /\ pollTimer) ~>
             (~pollTimer /\ (pollNet = InFlight \/ paymentStatus = "timeout"))
    /\ (~pollMounted /\ paymentStatus = "checking") ~> (paymentStatus \in Terminal)

\* Unmounted after the first request, while 'checking'; the remaining four
\* requests were made all the same and the attempt limit was reached.
C19_Witness ==
    /\ ~pollMounted
    /\ unmountedAt = 1
    /\ statusRequests = maxAttempts
    /\ paymentStatus = "timeout"


\* The clicks made on the controls of product p, in order.
ClicksOn(p) == SelectSeq(gestures, LAMBDA x : x.prod = p)

\* Product p was added once and then only its plus button was clicked, at
\* least once.
OnlyPluses(p) ==
    /\ Len(ClicksOn(p)) >= 2
    /\ ClicksOn(p)[1].g = "add"
    /\ \A i \in 2..Len(ClicksOn(p)) : ClicksOn(p)[i].g = "plus"

\* C22: no increment is lost.  After one add of p (backend quantity 1) and k
\* clicks on its plus button, with every request succeeding and all of them
\* completed, the backend holds p with quantity 1 + k.
C22_NoLostIncrement ==
    \A p \in Products :
        (~failed /\ inflight = EmptyBag /\ OnlyPluses(p)) =>
            (Has(backendCart, p) /\ Qty(backendCart, p) = Len(ClicksOn(p)))


\* The login exchange has succeeded: only its try branch clears the fragment.
LoginSucceeded ==
    loginNet = "done" /\ includes(mountedWith, K) /\ ~includes(hash, K)

\* C11: on /profile with no session_id fragment, once the who-am-I request has
\* settled without a user and the effect of UserProfile has run, the route is '/'.
C11_ProfileRedirects ==
    (/\ authPc = "run"
     /\ ~includes(mountedWith, K)
     /\ meNet = "done"
     /\ user = "null"
     /\ ~profileQueued) => route = "/"

C11_Witness ==
    /\ ~includes(mountedWith, K)
    /\ meNet = "done"
    /\ meData = "null"
    /\ user = "null"
    /\ redirected
    /\ route = "/"

\* This step is the catch and finally of checkAuth.
WhoAmIFailed == meNet = "error" /\ meNet' = "done"

\* C12: a failed who-am-I request leaves user as it was (null unless the
\* fragment exchange has set it), sets loading to false, shows no toast and
\* navigates nowhere.
C12_FailedWhoAmIIsNoUser ==
    [][ WhoAmIFailed =>
          /\ user' = user
          /\ user' = "null" \/ (LoginSucceeded /\ user' = loginData)
          /\ loading' = FALSE
          /\ authToast' = authToast
          /\ route' = route
      ]_vars

C12_Witness ==
    /\ meNet = "done"
    /\ meData = "null"
    /\ ~loading
    /\ user = "u2"
    /\ logouts = 0

\* C13: user is null at first; it is non-null only when a who-am-I request or
\* a login exchange has succeeded and no logout has succeeded since; every
\* successful logout sets it to null.
C13_UserOnlyAfterSuccess ==
    /\ user = "null"
    /\ [](user # "null" => signedIn)
    /\ [][ logoutNet'.ok < logoutNet.ok => user' = "null" ]_vars

C13_Witness ==
    /\ user = "null"
    /\ ~signedIn
    /\ logouts = 1
    /\ authToast = "Logged out successfully"

\* C18: when the fragment exchange succeeds, then once both bootstrap requests
\* have completed user is the record the exchange returned, whichever response
\* came first.
C18_ExchangeWins ==
    (LoginSucceeded /\ meNet = "done" /\ logouts = 0) => user = loginData

\* C20: loading stays true, and UserProfile does not navigate to '/', while
\* the who-am-I request is outstanding.
C20_WaitsForWhoAmI ==
    meNet \in {"pending", "ok", "error"} => (loading /\ ~redirected)

\* C23: logout clears user only in the step that handles a successful
\* POST /auth/logout.  The step that handles a failed one leaves user as it
\* was, shows no toast and navigates nowhere: a user who was shown as signed
\* in still is.
C23_LogoutFailureKeepsUser ==
    [][ /\ logoutNet'.error < logoutNet.error =>
              /\ user' = user
              /\ authToast' = authToast
              /\ route' = route
        /\ (user # "null" /\ user' = "null") => logoutNet'.ok < logoutNet.ok ]_vars

\* The one click on Logout has been answered with a failure and handled: no
\* toast was ever shown and the user is still there.
C23_Witness ==
    /\ logouts = 1
    /\ logoutNet = [sent |-> 0, ok |-> 0, error |-> 0]
    /\ user # "null"
    /\ authToast = "none"

\* What UserProfile renders: the 'Setting up your account...' view.
LoadingView == route = "/profile" /\ (loading \/ includes(hash, K))

\* The page was loaded with a session_id in its fragment and the exchange
\* has failed, or was never attempted because the extracted id was empty.
ExchangeFailed ==
    /\ includes(mountedWith, K)
    /\ authPc = "run"
    /\ \/ loginNet = "done" /\ authToast = "Authentication failed"
       \/ loginCalls = <<>> /\ authToast = "Invalid authentication response"

\* C21: on /profile, once the exchange has failed (or the extracted id was
\* empty) and the who-am-I request has settled leaving no user, the loading
\* view is eventually left: for the Authentication Failed screen or for '/'.
C21_LeavesLoadingView ==
    (route = "/profile" /\ ExchangeFailed /\ meNet = "done" /\ user = "null")
        ~> ~LoadingView

====
